---- MODULE Spec2Model ----
(***************************************************************************)
(* Model of the JCC refinement tutor (src/script.js): the lens/JCC state,  *)
(* the control gate, the drag listeners registered on the document, the    *)
(* blocking notification and the linear tutor-step state machine.          *)
(*                                                                         *)
(* Units: cylinder and sphere powers are in hundredths of a dioptre        *)
(* (-2.00 DC is -200; every value the program computes is a multiple of    *)
(* 0.25 and so exact in binary floating point).  Pointer directions are in *)
(* half degrees, counter-clockwise from the right, in [0, 720).            *)
(***************************************************************************)
EXTENDS Integers, Sequences, FiniteSets

VARIABLES
    currentSphere,     \* let currentSphere
    currentCylinder,   \* let currentCylinder
    currentAxis,       \* let currentAxis
    jccHandleAngle,    \* let jccHandleAngle
    jccFlipped,        \* let jccFlipped
    tutorStep,         \* let tutorStep
    disabled,          \* per control: button.disabled / classList has 'disabled'
    okOnclick,         \* notificationOkButton.onclick: "null" or "nextStep"
    isDraggingJCC,     \* let isDraggingJCC
    isDraggingLens,    \* let isDraggingLens
    listeners,         \* (moveHandler, upHandler) pairs on document, in
                       \* registration order, each named by its slider
    timerPending,      \* the setTimeout of step 1 has not fired yet
    tutorInstructions, \* what displayInstruction last wrote
    finalRX,           \* finalRXDisplay.textContent, as the values it renders
    patientFeedback,   \* what displayContinuousPatientFeedback last wrote
    ev,                \* the last event delivered: its name, and whether the
                       \* control it came from was disabled at delivery
    probe              \* the arguments a helper function is applied to and
                       \* what it returned (used by SpecAngles only)

prog == <<currentSphere, currentCylinder, currentAxis, jccHandleAngle,
          jccFlipped, tutorStep, disabled, okOnclick, isDraggingJCC,
          isDraggingLens, listeners, timerPending, tutorInstructions,
          finalRX, patientFeedback>>

vars == <<currentSphere, currentCylinder, currentAxis, jccHandleAngle,
          jccFlipped, tutorStep, disabled, okOnclick, isDraggingJCC,
          isDraggingLens, listeners, timerPending, tutorInstructions,
          finalRX, patientFeedback, ev, probe>>

---------------------------------------------------------------------------
(* Bounds of the model *)

\* concurrent drags (mousedown / touchstart without a release in between)
MaxDrags == 2

\* helper functions are applied to every angle of magnitude up to this
MaxProbeAngle == 1000

\* pointer directions sampled within this many half degrees of a key direction
PointerWindow == 6

\* decrease-power clicks are explored while the cylinder stays at or below
\* this power (hundredths of a dioptre)
MaxCylinder == 50

---------------------------------------------------------------------------
(* Program constants *)

InitialSphere == 0

InitialCylinder == -200

InitialAxis == 180

InitialHandleAngle == 90

\* currentCylinder -= 0.25 / += 0.25
CylinderStep == 25

\* currentCylinder === -2.50
ConfirmedCylinder == -250

\* the last case label of nextStep's switch
LastStep == 39

Buttons == {"flipJCC", "increasePower", "decreasePower", "confirmAxis",
            "confirmPower", "notificationOk", "startTutorialButton"}

Sliders == {"jccRotation", "lensRotation"}

Controls == Buttons \cup Sliders

\* cases of nextStep that call showJCCNotification
ObservationSteps == {3, 5, 7, 11, 13, 15, 19, 21, 23, 26, 28, 30, 33, 35, 37}

\* cases of nextStep that enable flipJCC and set jccFlipped = false
FlipStepsUnflipped == {2, 6, 10, 14, 18, 22, 25, 29, 32, 36}

\* cases of nextStep that enable flipJCC and set jccFlipped = true
FlipStepsFlipped == {4, 12, 20, 27, 34}

\* cases of nextStep that enable jccRotation synchronously
JccRotationSteps == {9, 17}

\* cases of nextStep that enable increasePower and decreasePower
PowerSteps == {24, 31}

---------------------------------------------------------------------------
(* Pointer input *)

\* directions the tutorial's targets and the fold boundaries lie at
KeyDirections == {0, 10, 100, 180, 360, 370, 460, 540, 719}

PointerAngles ==
    {p \in 0..719 : \E k \in KeyDirections :
                        p - k <= PointerWindow /\ k - p <= PointerWindow}

---------------------------------------------------------------------------
(* Helper functions *)

\* JavaScript's % : the result takes the sign of the dividend
JsRem(a, n) == IF a >= 0 THEN a % n ELSE -((-a) % n)

\* Math.round(angle / 5) * 5, Math.round being floor(x + 0.5)
roundTo5Degrees(angle) == ((2 * angle + 5) \div 10) * 5

\* mutant: a result of 0 is returned as it is
getDisplayAxisKeepingZero(angle) ==
    LET rem == JsRem(roundTo5Degrees(angle), 180)
    IN  IF rem < 0 THEN rem + 180 ELSE rem

\* mutant: the angle is folded into a full turn
getDisplayAxisFullTurn(angle) ==
    LET rem    == JsRem(roundTo5Degrees(angle), 360)
        folded == IF rem < 0 THEN rem + 180 ELSE rem
    IN  IF folded = 0 THEN 180 ELSE folded

getDisplayAxis(angle) ==
    LET rounded == roundTo5Degrees(angle)
        rem     == JsRem(rounded, 180)
        folded  == IF rem < 0 THEN rem + 180 ELSE rem
    IN  IF folded = 0 THEN 180 ELSE folded

\* mutant: the raw angle is truncated instead of rounded
svgCoordsToOptometricAxisTruncated(p) ==
    LET optometricAxis == IF p > 360 THEN p - 360 ELSE p
    IN  optometricAxis \div 2

\* p: the pointer's direction in half degrees, (angleDeg + 360) % 360
svgCoordsToOptometricAxis(p) ==
    LET optometricAxis == IF p > 360 THEN p - 360 ELSE p
    IN  (optometricAxis + 1) \div 2

---------------------------------------------------------------------------
(* The program state as one record, so that handlers compose *)

State ==
    [currentSphere     |-> currentSphere,
     currentCylinder   |-> currentCylinder,
     currentAxis       |-> currentAxis,
     jccHandleAngle    |-> jccHandleAngle,
     jccFlipped        |-> jccFlipped,
     tutorStep         |-> tutorStep,
     disabled          |-> disabled,
     okOnclick         |-> okOnclick,
     isDraggingJCC     |-> isDraggingJCC,
     isDraggingLens    |-> isDraggingLens,
     listeners         |-> listeners,
     timerPending      |-> timerPending,
     tutorInstructions |-> tutorInstructions,
     finalRX           |-> finalRX,
     patientFeedback   |-> patientFeedback]

Set(s) ==
    /\ currentSphere'     = s.currentSphere
    /\ currentCylinder'   = s.currentCylinder
    /\ currentAxis'       = s.currentAxis
    /\ jccHandleAngle'    = s.jccHandleAngle
    /\ jccFlipped'        = s.jccFlipped
    /\ tutorStep'         = s.tutorStep
    /\ disabled'          = s.disabled
    /\ okOnclick'         = s.okOnclick
    /\ isDraggingJCC'     = s.isDraggingJCC
    /\ isDraggingLens'    = s.isDraggingLens
    /\ listeners'         = s.listeners
    /\ timerPending'      = s.timerPending
    /\ tutorInstructions' = s.tutorInstructions
    /\ finalRX'           = s.finalRX
    /\ patientFeedback'   = s.patientFeedback

Event(name, wasDisabled) == [name |-> name, disabled |-> wasDisabled]

StepText(k) == [kind |-> "step", step |-> k]

CompleteText == [kind |-> "complete", step |-> 0]

NoText == [kind |-> "none", step |-> 0]

displayInstruction(s, text) == [s EXCEPT !.tutorInstructions = text]

---------------------------------------------------------------------------
(* Control gate *)

\* mutant: the acknowledge button is left as it is
disableAllControlsButOk(s) ==
    [s EXCEPT !.disabled =
        [c \in Controls |-> IF c = "notificationOk" THEN s.disabled[c] ELSE TRUE]]

\* mutant: the flip button is left as it is
disableAllControlsButFlip(s) ==
    [s EXCEPT !.disabled =
        [c \in Controls |-> IF c = "flipJCC" THEN s.disabled[c] ELSE TRUE]]

disableAllControls(s) == [s EXCEPT !.disabled = [c \in Controls |-> TRUE]]

enableControls(s, controls) ==
    [s EXCEPT !.disabled =
        [c \in Controls |-> IF c \in controls THEN FALSE ELSE s.disabled[c]]]

showJCCNotification(s) ==
    LET d == disableAllControls(s)
    IN  [d EXCEPT !.disabled["notificationOk"] = FALSE,
                  !.okOnclick = "nextStep"]

---------------------------------------------------------------------------
(* JCC geometry *)

\* mutant: the red line takes the unflipped offset in both positions
getJCCRedLineAxisIgnoringFlip(s) ==
    getDisplayAxis(s.jccHandleAngle - 45)

getJCCRedLineAxis(s) ==
    LET redLineOffset == IF ~s.jccFlipped THEN -45 ELSE 45
    IN  getDisplayAxis(s.jccHandleAngle + redLineOffset)

\* mutant: the green line takes the red line's offsets
getJCCGreenLineAxisAsRed(s) ==
    LET greenLineOffset == IF ~s.jccFlipped THEN -45 ELSE 45
    IN  getDisplayAxis(s.jccHandleAngle + greenLineOffset)

getJCCGreenLineAxis(s) ==
    LET greenLineOffset == IF ~s.jccFlipped THEN 45 ELSE -45
    IN  getDisplayAxis(s.jccHandleAngle + greenLineOffset)

---------------------------------------------------------------------------
(* Slider callbacks and the step predicate of a release *)

updateJCCRotation(s, angle) == [s EXCEPT !.jccHandleAngle = angle]

\* mutant: the lens callback writes the handle angle as well
updateLensRotationBothAngles(s, angle) ==
    [s EXCEPT !.currentAxis = angle, !.jccHandleAngle = angle]

updateLensRotation(s, angle) == [s EXCEPT !.currentAxis = angle]

\* updateValueCallback of the closure startDrag made for this slider
updateValueCallback(s, slider, angle) ==
    IF slider = "jccRotation" THEN updateJCCRotation(s, angle)
                              ELSE updateLensRotation(s, angle)

\* the text finalRXDisplay renders: sphere, cylinder and displayed axis
PrescriptionText(s) ==
    [sphere   |-> s.currentSphere,
     cylinder |-> s.currentCylinder,
     axis     |-> getDisplayAxis(s.currentAxis)]

NoPrescription == [sphere |-> 0, cylinder |-> 0, axis |-> 0]

---------------------------------------------------------------------------
(* Patient feedback *)

\* jccPositionDisplay.textContent, as the number of the position it names
updateJCCDisplay(s) == IF ~s.jccFlipped THEN 1 ELSE 2

\* a feedback text, as what it states: the position it names, the degrees
\* it gives for the red and the green line (0: the line is not mentioned),
\* and the line it says lies along the lens axis
Feedback(position, red, green, along) ==
    [position |-> position, red |-> red, green |-> green, along |-> along]

\* "Awaiting instructions." / "Ready for examination."
NoFeedback == Feedback(0, 0, 0, "none")

displayContinuousPatientFeedback(s, text) ==
    [s EXCEPT !.patientFeedback = text]

\* the text each observation case of nextStep passes to
\* displayContinuousPatientFeedback
ObservationFeedback(b) ==
    LET k == b.tutorStep
    IN  CASE k \in {3, 7} -> Feedback(2, 40, 0, "none")
          [] k = 5 -> Feedback(1, 140, 0, "none")
          [] k \in {11, 15} -> Feedback(2, getJCCRedLineAxis(b), 0, "none")
          [] k = 13 -> Feedback(1, getJCCRedLineAxis(b), 0, "none")
          [] k \in {19, 23, 26, 30, 33, 37} ->
                 Feedback(2, getDisplayAxis(b.currentAxis),
                          getJCCGreenLineAxis(b), "red")
          [] k \in {21, 28, 35} ->
                 Feedback(1, getJCCRedLineAxis(b),
                          getDisplayAxis(b.currentAxis), "green")

---------------------------------------------------------------------------
(* Main tutor flow *)

\* the switch of nextStep, entered with the step already incremented and
\* every control disabled
stepEntry(b) ==
    LET k == b.tutorStep
    IN  CASE k = 1 ->
                 [displayContinuousPatientFeedback(b, NoFeedback)
                    EXCEPT !.timerPending = TRUE]
          [] k \in FlipStepsUnflipped ->
                 [enableControls(displayInstruction(b, StepText(k)), {"flipJCC"})
                    EXCEPT !.jccFlipped = FALSE]
          [] k \in FlipStepsFlipped ->
                 [enableControls(displayInstruction(b, StepText(k)), {"flipJCC"})
                    EXCEPT !.jccFlipped = TRUE]
          [] k \in ObservationSteps ->
                 showJCCNotification(
                     displayContinuousPatientFeedback(b, ObservationFeedback(b)))
          [] k = 8 ->
                 enableControls(displayInstruction(b, StepText(k)), {"lensRotation"})
          [] k \in JccRotationSteps ->
                 enableControls(displayInstruction(b, StepText(k)), {"jccRotation"})
          [] k = 16 ->
                 enableControls(displayInstruction(b, StepText(k)), {"confirmAxis"})
          [] k \in PowerSteps ->
                 enableControls(displayInstruction(b, StepText(k)),
                                {"increasePower", "decreasePower"})
          [] k = 38 ->
                 enableControls(displayInstruction(b, StepText(k)), {"confirmPower"})
          [] k = LastStep ->
                 disableAllControls(
                     [displayInstruction(b, StepText(k))
                        EXCEPT !.finalRX = PrescriptionText(b)])
          [] OTHER ->
                 displayInstruction(b, CompleteText)

\* mutant: the counter is advanced twice
nextStepSkipping(s) ==
    stepEntry(disableAllControls([s EXCEPT !.tutorStep = @ + 2]))

nextStep(s) ==
    stepEntry(disableAllControls([s EXCEPT !.tutorStep = @ + 1]))

\* mutant: the deferred callback enables the lens slider as well
step1TimeoutBothSliders(s) ==
    [enableControls(displayInstruction(s, StepText(1)),
                    {"jccRotation", "lensRotation"})
       EXCEPT !.timerPending = FALSE]

\* mutant: the deferred callback shows the instruction and enables nothing
step1TimeoutEnablingNothing(s) ==
    [displayInstruction(s, StepText(1)) EXCEPT !.timerPending = FALSE]

\* the callback of the setTimeout scheduled on entering step 1
step1Timeout(s) ==
    [enableControls(displayInstruction(s, StepText(1)), {"jccRotation"})
       EXCEPT !.timerPending = FALSE]

\* mutant: the step-9 release advances whatever the handle angle is
checkSliderValueForNextStepAnyHandle(s) ==
    CASE s.tutorStep = 1 ->
             IF s.jccHandleAngle = 180 THEN nextStep(s) ELSE s
      [] s.tutorStep = 8 ->
             IF s.currentAxis = 5 THEN nextStep(s) ELSE s
      [] s.tutorStep = 9 -> nextStep(s)
      [] s.tutorStep = 17 ->
             IF s.jccHandleAngle = getDisplayAxis(s.currentAxis + 45)
             THEN nextStep(s) ELSE s
      [] OTHER -> s

checkSliderValueForNextStep(s) ==
    CASE s.tutorStep = 1 ->
             IF s.jccHandleAngle = 180 THEN nextStep(s) ELSE s
      [] s.tutorStep = 8 ->
             IF s.currentAxis = 5 THEN nextStep(s) ELSE s
      [] s.tutorStep = 9 ->
             IF s.jccHandleAngle = 5 THEN nextStep(s) ELSE s
      [] s.tutorStep = 17 ->
             IF s.jccHandleAngle = getDisplayAxis(s.currentAxis + 45)
             THEN nextStep(s) ELSE s
      [] OTHER -> s

---------------------------------------------------------------------------
(* Drag handling *)

\* startDrag, for a mousedown / touchstart on the slider's div at direction p
startDrag(s, slider, p) ==
    IF s.disabled[slider] THEN s
    ELSE LET a == IF slider = "jccRotation"
                  THEN [s EXCEPT !.isDraggingJCC = TRUE]
                  ELSE [s EXCEPT !.isDraggingLens = TRUE]
             b == [a EXCEPT !.listeners = Append(@, slider)]
         IN  updateValueCallback(b, slider,
                                 getDisplayAxis(svgCoordsToOptometricAxis(p)))

\* one closure's moveHandler, for a mousemove / touchmove at direction p
moveHandler(s, slider, p) ==
    IF ~s.isDraggingJCC /\ ~s.isDraggingLens THEN s
    ELSE updateValueCallback(s, slider, svgCoordsToOptometricAxis(p))

\* mutant: the released value is committed without snapping
upHandlerUnsnapped(s, slider) ==
    checkSliderValueForNextStep(
        [s EXCEPT !.isDraggingJCC = FALSE,
                  !.isDraggingLens = FALSE,
                  !.listeners = Tail(@)])

\* one closure's upHandler
upHandler(s, slider) ==
    LET a == [s EXCEPT !.isDraggingJCC = FALSE,
                       !.isDraggingLens = FALSE,
                       !.listeners = Tail(@)]
        b == IF slider = "jccRotation"
             THEN [a EXCEPT !.jccHandleAngle = getDisplayAxis(a.jccHandleAngle)]
             ELSE [a EXCEPT !.currentAxis = getDisplayAxis(a.currentAxis)]
    IN  checkSliderValueForNextStep(b)

\* document dispatches a move event to every registered moveHandler in order
RECURSIVE dispatchMove(_, _, _)
dispatchMove(s, ls, p) ==
    IF ls = <<>> THEN s
    ELSE dispatchMove(moveHandler(s, Head(ls), p), Tail(ls), p)

\* document dispatches a release to every registered upHandler in order
RECURSIVE dispatchUp(_, _)
dispatchUp(s, ls) ==
    IF ls = <<>> THEN s
    ELSE dispatchUp(upHandler(s, Head(ls)), Tail(ls))

---------------------------------------------------------------------------
(* Click listeners *)

\* mutant: the flip flag is not toggled
flipJCCClickNoToggle(s) ==
    IF s.disabled["flipJCC"] THEN s ELSE nextStep(s)

\* mutant: the flip flag is set instead of toggled
flipJCCClickSetting(s) ==
    IF s.disabled["flipJCC"] THEN s
    ELSE nextStep([s EXCEPT !.jccFlipped = TRUE])

flipJCCClick(s) ==
    IF s.disabled["flipJCC"] THEN s
    ELSE nextStep([s EXCEPT !.jccFlipped = ~@])

\* mutant: the second checkpoint is forgotten
increasePowerClickOnly24(s) ==
    LET a == [s EXCEPT !.currentCylinder = @ - CylinderStep]
    IN  IF a.tutorStep = 24 THEN nextStep(a) ELSE a

increasePowerClick(s) ==
    LET a == [s EXCEPT !.currentCylinder = @ - CylinderStep]
    IN  IF a.tutorStep = 24 \/ a.tutorStep = 31 THEN nextStep(a) ELSE a

\* mutant: decrease mirrors increase and advances at the checkpoints
decreasePowerClickAdvancing(s) ==
    LET a == [s EXCEPT !.currentCylinder = @ + CylinderStep]
    IN  IF a.tutorStep = 24 \/ a.tutorStep = 31 THEN nextStep(a) ELSE a

decreasePowerClick(s) == [s EXCEPT !.currentCylinder = @ + CylinderStep]

\* mutant: the axis is compared with the starting axis
confirmAxisClickStaleTarget(s) ==
    IF s.tutorStep = 16 /\ s.currentAxis = 180 THEN nextStep(s) ELSE s

confirmAxisClick(s) ==
    IF s.tutorStep = 16 /\ s.currentAxis = 5 THEN nextStep(s) ELSE s

\* mutant: the power is compared with the power after one increment
confirmPowerClickOneIncrement(s) ==
    IF s.tutorStep = 38 /\ s.currentCylinder = -225
    THEN nextStep(s) ELSE s

\* mutant: the power is not compared at all
confirmPowerClickUnchecked(s) ==
    IF s.tutorStep = 38 THEN nextStep(s) ELSE s

confirmPowerClick(s) ==
    IF s.tutorStep = 38 /\ s.currentCylinder = ConfirmedCylinder
    THEN nextStep(s) ELSE s

startTutorialClick(s) ==
    nextStep([s EXCEPT !.disabled["startTutorialButton"] = TRUE])

\* mutant: the stored callback is not cleared
notificationOkClickKeepingCallback(s) ==
    IF s.okOnclick = "null" THEN s ELSE nextStep(s)

\* notificationOkButton.onclick: the closure showJCCNotification stored, if any
notificationOkClick(s) ==
    IF s.okOnclick = "null" THEN s
    ELSE nextStep([s EXCEPT !.okOnclick = "null"])

\* the listener of each button
clickHandler(s, button) ==
    CASE button = "flipJCC"             -> flipJCCClick(s)
      [] button = "increasePower"       -> increasePowerClick(s)
      [] button = "decreasePower"       -> decreasePowerClick(s)
      [] button = "confirmAxis"         -> confirmAxisClick(s)
      [] button = "confirmPower"        -> confirmPowerClick(s)
      [] button = "startTutorialButton" -> startTutorialClick(s)
      [] button = "notificationOk"      -> notificationOkClick(s)

---------------------------------------------------------------------------
(* Initial state: the module-level declarations followed by init() *)

NoProbe == [fn |-> "none", angle |-> 0, flipped |-> FALSE, out |-> <<>>]

Init ==
    /\ currentSphere = InitialSphere
    /\ currentCylinder = InitialCylinder
    /\ currentAxis = InitialAxis
    /\ jccHandleAngle = InitialHandleAngle
    /\ jccFlipped = FALSE
    /\ tutorStep = 0
    /\ disabled = [c \in Controls |-> c # "startTutorialButton"]
    /\ okOnclick = "null"
    /\ isDraggingJCC = FALSE
    /\ isDraggingLens = FALSE
    /\ listeners = <<>>
    /\ timerPending = FALSE
    /\ tutorInstructions = NoText
    /\ finalRX = NoPrescription
    /\ patientFeedback = NoFeedback
    /\ ev = Event("init", FALSE)
    /\ probe = NoProbe

---------------------------------------------------------------------------
(* Events.  The browser dispatches a click only to a button that is not     *)
(* disabled; the slider divs receive every mousedown / touchstart, and the  *)
(* document every move and release.                                         *)

\* the power explored by decrease-power clicks is bounded
WithinCylinderBound(button) ==
    button = "decreasePower" => currentCylinder + CylinderStep <= MaxCylinder

Click(button) ==
    /\ ~disabled[button]
    /\ WithinCylinderBound(button)
    /\ Set(clickHandler(State, button))
    /\ ev' = Event(button, FALSE)
    /\ UNCHANGED probe

SliderDown(slider, p) ==
    /\ disabled[slider] \/ Len(listeners) < MaxDrags
    /\ Set(startDrag(State, slider, p))
    /\ ev' = Event(slider, disabled[slider])
    /\ UNCHANGED probe

PointerMove(p) ==
    /\ Set(dispatchMove(State, listeners, p))
    /\ ev' = Event("move", FALSE)
    /\ UNCHANGED probe

PointerUp ==
    /\ Set(dispatchUp(State, listeners))
    /\ ev' = Event("up", FALSE)
    /\ UNCHANGED probe

TimerFire ==
    /\ timerPending
    /\ Set(step1Timeout(State))
    /\ ev' = Event("timer", FALSE)
    /\ UNCHANGED probe

Next ==
    \/ \E button \in Buttons : Click(button)
    \/ \E slider \in Sliders, p \in PointerAngles : SliderDown(slider, p)
    \/ \E p \in PointerAngles : PointerMove(p)
    \/ PointerUp
    \/ TimerFire

Spec == Init /\ [][Next]_vars

---------------------------------------------------------------------------
(* Stale deliveries: a run of the program followed by at most one click     *)
(* listener invoked although its button is disabled (a synthetic or racing  *)
(* event the browser's own gate did not stop).                              *)

StaleClick(button) ==
    /\ disabled[button]
    /\ Set(clickHandler(State, button))
    /\ ev' = Event(button, TRUE)
    /\ UNCHANGED probe

StaleDelivered == ev.disabled /\ ev.name \in Buttons

\* the program runs on for as long as no stale click was delivered
ProgramStep == ~StaleDelivered /\ Next

StaleStep == ~StaleDelivered /\ \E button \in Buttons : StaleClick(button)

NextStale ==
    \/ ProgramStep
    \/ StaleStep

SpecStale == Init /\ [][NextStale]_vars

---------------------------------------------------------------------------
(* The cooperative learner: at every step the learner performs the action   *)
(* the instruction asks for, and keeps performing it (weak fairness).       *)

\* the angle the instruction of a slider step asks the learner to set
InstructedTarget(s) ==
    CASE s.tutorStep = 1  -> 180
      [] s.tutorStep = 8  -> 5
      [] s.tutorStep = 9  -> getDisplayAxis(s.currentAxis)
      [] s.tutorStep = 17 -> getDisplayAxis(s.currentAxis + 45)
      [] OTHER -> 0

\* the instructed button: whichever is enabled, decrease-power never being
\* the instructed one
CoopClick == \E button \in Buttons \ {"decreasePower"} : Click(button)

\* the learner takes hold of the enabled slider's thumb, wherever it is
CoopPress ==
    \E slider \in Sliders :
        /\ ~disabled[slider]
        /\ listeners = <<>>
        /\ \E p \in PointerAngles : SliderDown(slider, p)

\* the learner drags the thumb, through any direction
CoopMove ==
    /\ listeners # <<>>
    /\ \E p \in PointerAngles : PointerMove(p)

\* the learner drags the thumb onto the instructed target
CoopMoveToTarget ==
    /\ listeners # <<>>
    /\ \E p \in PointerAngles :
           /\ getDisplayAxis(svgCoordsToOptometricAxis(p))
                  = InstructedTarget(State)
           /\ PointerMove(p)

\* the learner lets go only when the thumb is on the instructed target
CoopRelease ==
    /\ listeners # <<>>
    /\ getDisplayAxis(IF Head(listeners) = "jccRotation"
                      THEN jccHandleAngle ELSE currentAxis)
           = InstructedTarget(State)
    /\ PointerUp

NextCooperative ==
    \/ CoopClick
    \/ CoopPress
    \/ CoopMove
    \/ CoopRelease
    \/ TimerFire

\* the learner keeps clicking the instructed button and taking hold of the
\* instructed slider, keeps bringing the thumb to the target, and lets go
\* on one of the occasions the thumb is there; the browser fires the timer
SpecCooperative ==
    /\ Init
    /\ [][NextCooperative]_vars
    /\ WF_vars(CoopClick)
    /\ WF_vars(CoopPress)
    /\ WF_vars(CoopMoveToTarget)
    /\ SF_vars(CoopRelease)
    /\ WF_vars(TimerFire)

---------------------------------------------------------------------------
(* The angle helpers on their own: an angle and a flip state are drawn, and *)
(* one helper is applied to them.                                           *)

ProbeAngles == (0 - MaxProbeAngle)..MaxProbeAngle

InitAngles ==
    /\ currentSphere = InitialSphere
    /\ currentCylinder = InitialCylinder
    /\ currentAxis = InitialAxis
    /\ jccHandleAngle = InitialHandleAngle
    /\ jccFlipped = FALSE
    /\ tutorStep = 0
    /\ disabled = [c \in Controls |-> c # "startTutorialButton"]
    /\ okOnclick = "null"
    /\ isDraggingJCC = FALSE
    /\ isDraggingLens = FALSE
    /\ listeners = <<>>
    /\ timerPending = FALSE
    /\ tutorInstructions = NoText
    /\ finalRX = NoPrescription
    /\ patientFeedback = NoFeedback
    /\ ev = Event("init", FALSE)
    /\ \E a \in ProbeAngles, f \in BOOLEAN :
           probe = [fn |-> "none", angle |-> a, flipped |-> f, out |-> <<>>]

\* getDisplayAxis applied to the angle, to the angle half a turn on, and to
\* its own result
ApplyGetDisplayAxis ==
    /\ probe.fn = "none"
    /\ probe' = [probe EXCEPT
                    !.fn  = "getDisplayAxis",
                    !.out = [value   |-> getDisplayAxis(probe.angle),
                             shifted |-> getDisplayAxis(probe.angle + 180),
                             again   |-> getDisplayAxis(
                                             getDisplayAxis(probe.angle))]]
    /\ UNCHANGED <<prog, ev>>

\* the red and green line axes of a JCC held at the angle, and the displayed
\* axis of their difference
ApplyJCCLines ==
    /\ probe.fn = "none"
    /\ probe.angle \in 0..180
    /\ LET s     == [State EXCEPT !.jccHandleAngle = probe.angle,
                                  !.jccFlipped = probe.flipped]
           red   == getJCCRedLineAxis(s)
           green == getJCCGreenLineAxis(s)
       IN  probe' = [probe EXCEPT
                       !.fn  = "jccLines",
                       !.out = [red   |-> red,
                                green |-> green,
                                apart |-> getDisplayAxis(red - green)]]
    /\ UNCHANGED <<prog, ev>>

\* jccFlipped = !jccFlipped applied once and twice to a JCC held at the
\* angle: the line axes before, after one toggle and after two
ApplyFlipToggle ==
    /\ probe.fn = "none"
    /\ probe.angle \in 0..180
    /\ LET s0 == [State EXCEPT !.jccHandleAngle = probe.angle,
                               !.jccFlipped = probe.flipped]
           s1 == [s0 EXCEPT !.jccFlipped = ~@]
           s2 == [s1 EXCEPT !.jccFlipped = ~@]
       IN  probe' = [probe EXCEPT
                       !.fn  = "flipToggle",
                       !.out = [red        |-> getJCCRedLineAxis(s0),
                                green      |-> getJCCGreenLineAxis(s0),
                                redOnce    |-> getJCCRedLineAxis(s1),
                                greenOnce  |-> getJCCGreenLineAxis(s1),
                                redTwice   |-> getJCCRedLineAxis(s2),
                                greenTwice |-> getJCCGreenLineAxis(s2)]]
    /\ UNCHANGED <<prog, ev>>

NextAngles ==
    \/ ApplyGetDisplayAxis
    \/ ApplyJCCLines
    \/ ApplyFlipToggle

SpecAngles == InitAngles /\ [][NextAngles]_vars

---------------------------------------------------------------------------
(* Shorthands used by the properties *)

EnabledControls == {c \in Controls : ~disabled[c]}

\* the controls each step may have enabled
StepControls(k) ==
    CASE k = 0 -> {"startTutorialButton"}
      [] k \in {1, 9, 17} -> {"jccRotation"}
      [] k = 8 -> {"lensRotation"}
      [] k \in {2, 4, 6, 10, 12, 14, 18, 20, 22, 25, 27, 29, 32, 34, 36} ->
             {"flipJCC"}
      [] k = 16 -> {"confirmAxis"}
      [] k \in {24, 31} -> {"increasePower", "decreasePower"}
      [] k = 38 -> {"confirmPower"}
      [] k \in {3, 5, 7, 11, 13, 15, 19, 21, 23, 26, 28, 30, 33, 35, 37} ->
             {"notificationOk"}
      [] OTHER -> {}

LensJccState == <<currentSphere, currentCylinder, currentAxis,
                  jccHandleAngle, jccFlipped>>

LensJccOf(s) == <<s.currentSphere, s.currentCylinder, s.currentAxis,
                  s.jccHandleAngle, s.jccFlipped>>

---------------------------------------------------------------------------
(* Properties *)

\* C1: an input event delivered to its handler while its control is disabled
\* is ignored: tutorStep, currentCylinder, currentAxis, jccHandleAngle and
\* jccFlipped are unchanged.
C1_DisabledEventIgnored ==
    [][ev'.disabled =>
         UNCHANGED <<tutorStep, currentCylinder, currentAxis,
                     jccHandleAngle, jccFlipped>>]_vars

\* C2: drag-start and pointer-move events never change currentAxis or
\* jccHandleAngle and never advance the step; only the release does.
C2_PreviewNeverWrites ==
    [][ev'.name \in Sliders \cup {"move"} =>
         UNCHANGED <<currentAxis, jccHandleAngle, tutorStep>>]_vars

\* C3: tutorStep starts at 0 and every transition leaves it alone or raises
\* it by exactly 1.
C3_StepByStep ==
    /\ tutorStep = 0
    /\ [][tutorStep' = tutorStep \/ tutorStep' = tutorStep + 1]_vars

C3_Witness == tutorStep = 10 /\ ev.name = "up"

\* C4: tutorStep never exceeds 39; at step 39 every control is disabled and
\* no event changes tutorStep or the lens/JCC state; nextStep invoked at step
\* 39 would only show the completion text, leaving the lens/JCC state alone.
C4_TerminalStep ==
    /\ [](tutorStep <= LastStep)
    /\ [](tutorStep = LastStep =>
            /\ EnabledControls = {}
            /\ nextStep(State).tutorInstructions = CompleteText
            /\ LensJccOf(nextStep(State)) = LensJccState)
    /\ [][tutorStep = LastStep => UNCHANGED <<tutorStep, LensJccState>>]_vars

C4_Witness == tutorStep = LastStep /\ ev.name = "jccRotation"

\* C5: the enabled controls are always a subset of the current step's set.
C5_EnabledWithinStep == EnabledControls \subseteq StepControls(tutorStep)

C5_Witness ==
    tutorStep = 24 /\ EnabledControls = {"increasePower", "decreasePower"}

\* C6: a drag release writes the snapped angle of the released slider and
\* advances by one exactly when the step's predicate holds of it (steps 1, 8,
\* 9, 17); otherwise tutorStep and the enabled controls are unchanged.
C6_ReleaseCommits ==
    [][ev'.name = "up" /\ listeners # <<>> =>
         LET slider == Head(listeners)
             pred   == CASE tutorStep = 1 -> jccHandleAngle' = 180
                         [] tutorStep = 8 -> currentAxis' = 5
                         [] tutorStep = 9 -> jccHandleAngle' = 5
                         [] tutorStep = 17 ->
                                jccHandleAngle' = getDisplayAxis(currentAxis' + 45)
                         [] OTHER -> FALSE
         IN  /\ slider = "jccRotation" =>
                    /\ jccHandleAngle' = getDisplayAxis(jccHandleAngle)
                    /\ currentAxis' = currentAxis
             /\ slider = "lensRotation" =>
                    /\ currentAxis' = getDisplayAxis(currentAxis)
                    /\ jccHandleAngle' = jccHandleAngle
             /\ tutorStep' = IF pred THEN tutorStep + 1 ELSE tutorStep
             /\ ~pred => disabled' = disabled]_vars

C6_Witness == tutorStep = 18 /\ ev.name = "up"

\* C7: an enabled flip click negates jccFlipped and advances by exactly 1,
\* leaving axis, handle angle and cylinder alone; jccFlipped then stays as it
\* is for as long as the observation step lasts.
C7_FlipAdvances ==
    /\ [][ev'.name = "flipJCC" /\ ~ev'.disabled =>
            /\ jccFlipped' = ~jccFlipped
            /\ tutorStep' = tutorStep + 1
            /\ tutorStep' \in ObservationSteps
            /\ UNCHANGED <<currentAxis, jccHandleAngle, currentCylinder>>]_vars
    /\ [][(tutorStep \in ObservationSteps /\ tutorStep' = tutorStep)
              => (jccFlipped' = jccFlipped)]_vars

C7_Witness == ev.name = "flipJCC" /\ tutorStep = 5 /\ ~jccFlipped

\* C8: the notification is pending exactly at the observation steps, where
\* only acknowledge is enabled; an acknowledge advances by exactly 1 and
\* leaves axis, handle angle and cylinder alone; with no notification
\* pending an acknowledge does nothing.
C8_NotificationMode ==
    /\ [](/\ okOnclick = "nextStep" <=> tutorStep \in ObservationSteps
          /\ ~disabled["notificationOk"] <=> tutorStep \in ObservationSteps
          /\ tutorStep \in ObservationSteps =>
                 EnabledControls = {"notificationOk"}
          /\ tutorStep \notin ObservationSteps =>
                 notificationOkClick(State) = State)
    /\ [][ev'.name = "notificationOk" =>
            /\ tutorStep' = tutorStep + 1
            /\ UNCHANGED <<currentAxis, jccHandleAngle, currentCylinder>>]_vars

C8_Witness == ev.name = "notificationOk" /\ tutorStep = 8

\* C9: an enabled increase-power click lowers the cylinder by exactly 0.25,
\* advances iff the step is 24 or 31, and leaves the button disabled.
C9_IncreasePower ==
    [][ev'.name = "increasePower" /\ ~ev'.disabled =>
         /\ currentCylinder' = currentCylinder - 25
         /\ tutorStep' = IF tutorStep \in {24, 31} THEN tutorStep + 1
                                                   ELSE tutorStep
         /\ disabled'["increasePower"]]_vars

C9_Witness == ev.name = "increasePower" /\ tutorStep = 32

\* C10: a decrease-power click, at any step, raises the cylinder by exactly
\* 0.25 and changes neither tutorStep, the enabled controls, currentAxis,
\* jccHandleAngle nor jccFlipped.
C10_DecreasePower ==
    [][ev'.name = "decreasePower" =>
         /\ currentCylinder' = currentCylinder + 25
         /\ UNCHANGED <<tutorStep, disabled, currentAxis, jccHandleAngle,
                        jccFlipped>>]_vars

C10_Witness ==
    ev.name = "decreasePower" /\ tutorStep = 31 /\ currentCylinder > -200

\* C11: a confirm-axis click, at any step, advances by one iff tutorStep is
\* 16 and currentAxis is 5 and otherwise changes nothing; it never changes
\* the lens/JCC state; and at step 16 currentAxis is always 5.
C11_ConfirmAxis ==
    /\ [](tutorStep = 16 => currentAxis = 5)
    /\ [][ev'.name = "confirmAxis" =>
            /\ tutorStep' = IF tutorStep = 16 /\ currentAxis = 5
                            THEN tutorStep + 1 ELSE tutorStep
            /\ UNCHANGED LensJccState
            /\ tutorStep' = tutorStep => UNCHANGED prog]_vars

C11_Witness == ev.name = "confirmAxis" /\ ~ev.disabled /\ tutorStep = 17

\* C12: a confirm-power click, at any step, advances by one iff tutorStep is
\* 38 and currentCylinder is exactly -2.50 and otherwise changes nothing; it
\* never changes currentCylinder or any other lens/JCC state.
C12_ConfirmPower ==
    [][ev'.name = "confirmPower" =>
         /\ tutorStep' = IF tutorStep = 38 /\ currentCylinder = -250
                         THEN tutorStep + 1 ELSE tutorStep
         /\ UNCHANGED LensJccState
         /\ tutorStep' = tutorStep => UNCHANGED prog]_vars

C12_Witness ==
    ev.name = "confirmPower" /\ ~ev.disabled /\ tutorStep = 38
        /\ currentCylinder = -225

\* C13: once both increase-power checkpoints are passed (tutorStep >= 32)
\* currentCylinder is -2.50.
C13_CylinderAfterCheckpoints == tutorStep >= 32 => currentCylinder = -250

\* C14: at step 39 the prescription is sphere 0.00, cylinder -2.50, axis 5,
\* and that is what the final prescription display renders.
C14_FinalPrescription ==
    tutorStep = LastStep =>
        /\ currentSphere = 0
        /\ currentCylinder = -250
        /\ currentAxis = 5
        /\ finalRX = [sphere |-> 0, cylinder |-> -250, axis |-> 5]

C14_Witness == tutorStep = LastStep /\ ev.name = "confirmPower"

\* C15: the session starts in the fixed initial state with only start
\* enabled; the start click moves to step 1 and leaves the lens/JCC state
\* alone; at step 1 nothing but jcc-rotation is ever enabled; the deferred
\* enable of step 1 is pending only while tutorStep is 1 and, when it fires,
\* enables jcc-rotation at step 1.
C15_StartAndDeferredEnable ==
    /\ /\ currentSphere = 0
       /\ currentCylinder = -200
       /\ currentAxis = 180
       /\ jccHandleAngle = 90
       /\ ~jccFlipped
       /\ tutorStep = 0
       /\ EnabledControls = {"startTutorialButton"}
    /\ [](tutorStep = 1 => EnabledControls \subseteq {"jccRotation"})
    /\ [](timerPending => tutorStep = 1 /\ EnabledControls = {})
    /\ [](tutorStep > 1 => ~timerPending)
    /\ [][ev'.name = "startTutorialButton" =>
            /\ tutorStep = 0
            /\ tutorStep' = 1
            /\ timerPending'
            /\ UNCHANGED LensJccState]_vars
    /\ [][ev'.name = "timer" =>
            /\ tutorStep = 1
            /\ tutorStep' = 1
            /\ EnabledControls' = {"jccRotation"}
            /\ UNCHANGED LensJccState]_vars

C15_Witness ==
    ev.name = "timer" /\ tutorStep = 1 /\ EnabledControls = {"jccRotation"}

\* C16: currentCylinder is always a multiple of 0.25 and at most 0.
C16_CylinderRange == currentCylinder % 25 = 0 /\ currentCylinder <= 0

\* C17: in every reachable state, a drag in progress included, currentAxis
\* and jccHandleAngle are integers in [1, 180]; 0 is never stored.
C17_AnglesInRange == currentAxis \in 1..180 /\ jccHandleAngle \in 1..180

\* the multiple of 5 nearest to an integer angle
NearestMultipleOf5(a) == CHOOSE m \in (a - 2)..(a + 2) : m % 5 = 0

\* the axis in 5..180 congruent modulo 180 to the nearest multiple of 5
FoldedAxis(a) ==
    LET m == NearestMultipleOf5(a) % 180
    IN  IF m = 0 THEN 180 ELSE m

\* C18: for every integer a in [-1000, 1000] getDisplayAxis(a) is a multiple
\* of 5 in [5, 180], equals getDisplayAxis(a + 180), is 180 at 0, 180 and
\* 360, and is the nearest multiple of 5 folded modulo 180 (negative angles
\* included).
C18_DisplayAxisRange ==
    probe.fn = "getDisplayAxis" =>
        /\ probe.out.value \in {5 * k : k \in 1..36}
        /\ probe.out.value = probe.out.shifted
        /\ probe.angle \in {0, 180, 360} => probe.out.value = 180
        /\ probe.out.value = FoldedAxis(probe.angle)

C18_Witness ==
    probe.fn = "getDisplayAxis" /\ probe.angle = -182 /\ probe.out.value = 180

\* C19: getDisplayAxis is idempotent:
\* getDisplayAxis(getDisplayAxis(x)) = getDisplayAxis(x).
C19_DisplayAxisIdempotent ==
    probe.fn = "getDisplayAxis" => probe.out.again = probe.out.value

C19_Witness ==
    probe.fn = "getDisplayAxis" /\ probe.angle = -200 /\ probe.out.again = 160

\* C20: for every handle angle in [0, 180] and both flip states the red and
\* green lines are perpendicular:
\* getDisplayAxis(getJCCRedLineAxis() - getJCCGreenLineAxis()) = 90.
C20_LinesPerpendicular ==
    probe.fn = "jccLines" => probe.out.apart = 90

C20_Witness ==
    probe.fn = "jccLines" /\ probe.angle = 3 /\ probe.flipped
        /\ probe.out.red = 50 /\ probe.out.green = 140

\* C21: for a fixed handle angle, toggling jccFlipped swaps the two
\* meridians (the red axis after the toggle is the green axis before it, and
\* the green axis after it the red axis before), and toggling twice restores
\* the original red and green axes.
C21_FlipSwapsLines ==
    probe.fn = "flipToggle" =>
        /\ probe.out.redOnce = probe.out.green
        /\ probe.out.greenOnce = probe.out.red
        /\ probe.out.redTwice = probe.out.red
        /\ probe.out.greenTwice = probe.out.green

C21_Witness ==
    /\ probe.fn = "flipToggle"
    /\ probe.flipped
    /\ probe.angle = 50
    /\ probe.out.red = 95
    /\ probe.out.redOnce = 5

\* C22: in every reachable state at step 17 the JCC is unflipped
\* (jccFlipped is false), as the step-17 instruction and predicate assume;
\* hence whenever the step-17 predicate holds (jccHandleAngle equals
\* getDisplayAxis(currentAxis + 45)) the red line axis getJCCRedLineAxis()
\* equals the lens axis.
C22_Step17Unflipped ==
    tutorStep = 17 =>
        /\ ~jccFlipped
        /\ jccHandleAngle = getDisplayAxis(currentAxis + 45) =>
               getJCCRedLineAxis(State) = getDisplayAxis(currentAxis)

\* C23: at the power-refinement observation steps whose message states "red
\* line along <lens axis>" (19, 23, 26, 30, 33, 37) getJCCRedLineAxis()
\* equals getDisplayAxis(currentAxis); at those whose message states "green
\* line along <lens axis>" (21, 28, 35) getJCCGreenLineAxis() equals
\* getDisplayAxis(currentAxis).
C23_StatedLineAlongLensAxis ==
    /\ tutorStep \in {19, 23, 26, 30, 33, 37} =>
           /\ patientFeedback.along = "red"
           /\ getJCCRedLineAxis(State) = getDisplayAxis(currentAxis)
    /\ tutorStep \in {21, 28, 35} =>
           /\ patientFeedback.along = "green"
           /\ getJCCGreenLineAxis(State) = getDisplayAxis(currentAxis)

\* the multiples of 5 in [5, 180]
SnappedAxes == {5 * k : k \in 1..36}

\* the axis nearest to a pointer direction of p half degrees: the nearest
\* multiple of 5 degrees (a tie goes up), taken modulo half a turn, with 0
\* written as 180
NearestAxisOfPointer(p) ==
    LET m      == CHOOSE x \in (p - 4)..(p + 5) : x % 10 = 0
        folded == m % 360
    IN  IF folded = 0 THEN 180 ELSE folded \div 2

\* the angle a slider's drag writes
SliderValue(s, slider) ==
    IF slider = "jccRotation" THEN s.jccHandleAngle ELSE s.currentAxis

\* C24: after every drag release on either slider the committed value is the
\* nearest multiple of 5 to the last raw pointer angle, lies in [5, 180], and
\* a raw value that snaps to 0 is stored as 180 (whether the last pointer
\* position came from the press or from a move); so in every state with no
\* drag in progress both angles are multiples of 5 in [5, 180].
C24_ReleaseSnaps ==
    /\ \A slider \in Sliders, p \in PointerAngles :
           ~disabled[slider] =>
               LET pressed  == startDrag(State, slider, p)
                   released == dispatchUp(pressed, pressed.listeners)
               IN  /\ SliderValue(released, slider) = NearestAxisOfPointer(p)
                   /\ SliderValue(released, slider) \in SnappedAxes
    /\ \A i \in 1..Len(listeners), p \in PointerAngles :
           LET moved    == dispatchMove(State, listeners, p)
               released == dispatchUp(moved, moved.listeners)
           IN  /\ SliderValue(released, listeners[i]) = NearestAxisOfPointer(p)
               /\ SliderValue(released, listeners[i]) \in SnappedAxes
    /\ listeners = <<>> =>
           /\ currentAxis \in SnappedAxes
           /\ jccHandleAngle \in SnappedAxes

C24_Witness ==
    /\ ev.name = "up"
    /\ listeners = <<>>
    /\ tutorStep = 2
    /\ jccHandleAngle = 180

\* the steps at which the JCC is held flipped
StepsHeldFlipped ==
    {4, 12, 20, 27, 34}
        \cup {3, 7, 11, 15, 19, 23, 26, 30, 33, 37}
        \cup {8, 9, 16, 17, 24, 31, 38, 39}

\* the steps at which the JCC is held unflipped
StepsHeldUnflipped ==
    {0, 1, 2}
        \cup {6, 10, 14, 18, 22, 25, 29, 32, 36}
        \cup {5, 13, 21, 28, 35}

\* C25: jccFlipped is fully determined by tutorStep: false at steps 0-2, at
\* the flip-enabled steps 6, 10, 14, 18, 22, 25, 29, 32, 36 and at the
\* "Position 1" observation steps 5, 13, 21, 28, 35; true at the flip-enabled
\* steps 4, 12, 20, 27, 34, at the "Position 2" observation steps 3, 7, 11,
\* 15, 19, 23, 26, 30, 33, 37 and at steps 8, 9, 16, 17, 24, 31, 38, 39.
\* Consequently the position named in each observation message is the
\* position the JCC is in.
C25_FlipDeterminedByStep ==
    /\ tutorStep \in StepsHeldFlipped \cup StepsHeldUnflipped
    /\ jccFlipped = (tutorStep \in StepsHeldFlipped)
    /\ tutorStep \in ObservationSteps =>
           patientFeedback.position = updateJCCDisplay(State)

C25_Witness ==
    /\ tutorStep = 21
    /\ ~jccFlipped
    /\ patientFeedback.position = 1
    /\ ev.name = "flipJCC"

\* C26: with no drag in progress the angles are tied to the tutorial phase:
\* jccHandleAngle = currentAxis = 180 at steps 2-7; currentAxis = 5 at every
\* step from 9 on; jccHandleAngle = currentAxis = 5 at steps 10-16; and
\* jccHandleAngle = getDisplayAxis(currentAxis + 45) = 50 at every step from
\* 18 on.
C26_AnglesByPhase ==
    listeners = <<>> =>
        /\ tutorStep \in 2..7 =>
               jccHandleAngle = 180 /\ currentAxis = 180
        /\ tutorStep >= 9 => currentAxis = 5
        /\ tutorStep \in 10..16 =>
               jccHandleAngle = 5 /\ currentAxis = 5
        /\ tutorStep >= 18 =>
               /\ jccHandleAngle = getDisplayAxis(currentAxis + 45)
               /\ jccHandleAngle = 50

C26_Witness ==
    /\ listeners = <<>>
    /\ ev.name = "up"
    /\ tutorStep = 18
    /\ jccHandleAngle = 50
    /\ currentAxis = 5

\* no event the learner or the timer can deliver changes the program state
NoEventChangesProgram ==
    /\ \A button \in Buttons :
           ~disabled[button] => clickHandler(State, button) = State
    /\ \A slider \in Sliders, p \in PointerAngles :
           startDrag(State, slider, p) = State
    /\ \A p \in PointerAngles : dispatchMove(State, listeners, p) = State
    /\ dispatchUp(State, listeners) = State
    /\ ~timerPending

\* C27: no dead end: from every reachable state with tutorStep < 39 some
\* finite sequence of permitted learner inputs leads to step 39, so no such
\* state is one that every permitted input leaves as it is; in particular no
\* permitted sequence of increase-power / decrease-power clicks at steps 24
\* and 31 leaves the learner at step 38 with confirm-power unable to advance.
C27_NoDeadEnd ==
    tutorStep < LastStep => ~NoEventChangesProgram

\* C28: under fairness, a learner who at every step performs exactly the
\* instructed action (start; set the instructed slider to its target; flip;
\* acknowledge; one increase-power at 24 and at 31; confirm-axis;
\* confirm-power) eventually reaches step 39, passing through every step
\* 1..39 in order: the step starts at 0, never moves but by one up, and is
\* eventually 39.
C28_CooperativeLearnerFinishes ==
    /\ <>(tutorStep = LastStep)
    /\ [][tutorStep' = tutorStep \/ tutorStep' = tutorStep + 1]_vars

C28_Witness ==
    /\ tutorStep = LastStep
    /\ ev.name = "confirmPower"
    /\ currentCylinder = ConfirmedCylinder
    /\ jccHandleAngle = 50
    /\ patientFeedback.along = "red"

\* the event just delivered belongs to a drag of this slider: a press on it,
\* or a move or release while one of its listeners is registered
DragEventOf(slider) ==
    \/ ev'.name = slider
    \/ /\ ev'.name \in {"move", "up"}
       /\ \E i \in 1..Len(listeners) : listeners[i] = slider

\* C29: each state variable is written only by its own events: currentSphere
\* never changes from 0.00; currentAxis changes only through lens-slider
\* drag events; jccHandleAngle only through JCC-slider drag events;
\* currentCylinder only through increase-power / decrease-power clicks;
\* jccFlipped only through a flip click or a step-entry action of nextStep.
\* Acknowledge, start, confirm-axis and confirm-power change none of sphere,
\* cylinder, axis or handle angle.
C29_WrittenByOwnEvents ==
    [][/\ currentSphere = 0 /\ currentSphere' = 0
       /\ currentAxis' # currentAxis => DragEventOf("lensRotation")
       /\ jccHandleAngle' # jccHandleAngle => DragEventOf("jccRotation")
       /\ currentCylinder' # currentCylinder =>
              ev'.name \in {"increasePower", "decreasePower"}
       /\ jccFlipped' # jccFlipped =>
              ev'.name = "flipJCC" \/ tutorStep' # tutorStep
       /\ ev'.name \in {"notificationOk", "startTutorialButton",
                         "confirmAxis", "confirmPower"} =>
              UNCHANGED <<currentSphere, currentCylinder, currentAxis,
                          jccHandleAngle>>]_vars

C29_Witness ==
    /\ ev.name = "lensRotation"
    /\ ~ev.disabled
    /\ tutorStep = 8
    /\ currentAxis = 90
    /\ jccHandleAngle = 180

====
